---------------------------- MODULE Spec2Model ----------------------------
(***************************************************************************)
(* A model of the extraction / cache / deduplication / download pipeline   *)
(* of edx_dl/edx_dl.py.                                                     *)
(*                                                                         *)
(* A Python dict is modelled as a sequence of entries [url, units] with    *)
(* pairwise distinct keys; the order of the sequence is the dict's         *)
(* iteration order.  A Unit is a record with the five fields of the        *)
(* Unit namedtuple.  None is the string "None".                            *)
(***************************************************************************)
EXTENDS Integers, Sequences, FiniteSets, TLC

VARIABLES
    pc,              \* position of the operation under study
    all_units,       \* main: the All-Units Map (cached + new)
    filtered_units,  \* main: the map returned by remove_repeated_urls
    num_all_urls,    \* main: the count of the urls of all_units
    num_filtered_urls, \* main: the count of the urls of filtered_units
    urls,            \* extract_all_units: its argument, the list of urls to fetch
    task,            \* pool.map: the state of the task of each index of urls
    units,           \* pool.map: the result list, by index
    finished,        \* the indices of the tasks in the order they completed
    fetched,         \* the urls for which extract_units was called, in call order
    extracted,       \* the dict returned by extract_all_units
    pool,            \* the thread pool seen as counts of queued, busy and done tasks
    args,            \* the command line: cache, dry_run, prefer_cdn_videos
    selections,      \* main: the selected courses with their sections
    cache_file,      \* the content of DEFAULT_CACHE_FILENAME
    cached_units,    \* extract_all_units_with_cache: the dict loaded from the file
    all_urls,        \* main: the urls of the subsections of the selections
    run,             \* "first" or "second" run of main on the same command line
    first_outcome,   \* how the first run ended, once the second has begun
    cache_at_start,  \* the content of the cache file when the run began
    download_units,  \* download: its argument all_units
    sections_left,   \* download: the (course, section) pairs still to visit
    section_units,   \* download: the units of the current section still to visit
    entered,         \* download: the number of sections entered so far
    target_dir,      \* download: the directory of the current section
    counter,         \* download: the counter of the current section
    dispatched,      \* the calls of download_unit, in order
    downloads,       \* the urls handed to urlretrieve or youtube-dl, in order
    sub_unit,        \* _download_subtitles: its argument unit
    sub_files,       \* the files of target_dir
    sub_files_at_start, \* the files of target_dir before the first call
    sub_call,        \* the number of calls of _download_subtitles begun
    sub_filename,    \* _download_subtitles: filename
    subs_left,       \* _download_subtitles: the languages still to visit
    sub_log          \* the subtitle fetches, writes and skips, in order

dedupVars == <<all_units, filtered_units, num_all_urls, num_filtered_urls>>
poolVars == <<urls, task, units, finished, fetched, extracted>>
mainVars == <<args, selections, cache_file, cached_units, all_urls, run,
              first_outcome, cache_at_start>>
walkVars == <<download_units, sections_left, section_units, entered, target_dir,
              counter, dispatched, downloads>>
subVars == <<sub_unit, sub_files, sub_files_at_start, sub_call, sub_filename,
             subs_left, sub_log>>
vars == <<pc, dedupVars, poolVars, pool, mainVars, walkVars, subVars>>

None == "None"

(***************************************************************************)
(* Bounds of the model.                                                    *)
(***************************************************************************)
MaxSubsections == 2   \* subsection pages in a generated All-Units Map
MaxUnits == 2         \* records in a generated All-Units Map
MaxUrls == 3          \* urls of a generated map, as num_urls_in_units_dict counts
MaxBatch == 3         \* urls in a list given to extract_all_units on its own
MaxExcess == 2        \* urls beyond the size of the pool
MaxCourses == 2       \* courses of a generated selection
MaxCalls == 2         \* calls of _download_subtitles on one unit
MaxSections == 2      \* sections of a generated selection, over all its courses

ResourceUrls == {"u1", "u2"}
SubsectionUrls == <<"/s1", "/s2", "/s3">>

(***************************************************************************)
(* Data model: common.Unit as used by edx_dl.py                            *)
(***************************************************************************)
Unit(v, s, t, m, r) ==
    [video_youtube_url |-> v, available_subs_url |-> s, sub_template_url |-> t,
     mp4_urls |-> m, resources_urls |-> r]

Entry(url, unit_list) == [url |-> url, units |-> unit_list]

\* dict.get(key, default) on a dict kept as a sequence of entries
DictGet(d, key, default) ==
    IF \E i \in 1..Len(d) : d[i].url = key
    THEN d[CHOOSE i \in 1..Len(d) : d[i].url = key].units
    ELSE default

DictKeys(d) == {d[i].url : i \in 1..Len(d)}

Range(seq) == {seq[i] : i \in 1..Len(seq)}

(***************************************************************************)
(* num_urls_in_units_dict                                                  *)
(***************************************************************************)
NumUrlsInUnit(unit) ==
    (IF unit.video_youtube_url # None THEN 1 ELSE 0) +
    (IF unit.available_subs_url # None THEN 1 ELSE 0) +
    (IF unit.sub_template_url # None THEN 1 ELSE 0) +
    Len(unit.mp4_urls) + Len(unit.resources_urls)

RECURSIVE NumUrlsInUnits(_)
NumUrlsInUnits(unit_list) ==
    IF unit_list = <<>> THEN 0
    ELSE NumUrlsInUnit(Head(unit_list)) + NumUrlsInUnits(Tail(unit_list))

\* the count that leaves the subtitle fields out
RECURSIVE NumUrlsIgnoringSubtitles(_)
NumUrlsIgnoringSubtitles(units_dict) ==
    IF units_dict = <<>> THEN 0
    ELSE LET unit_list == Head(units_dict).units
             Subs(unit) == (IF unit.available_subs_url # None THEN 1 ELSE 0) +
                           (IF unit.sub_template_url # None THEN 1 ELSE 0)
             AllSubs[n \in 0..Len(unit_list)] ==
                 IF n = 0 THEN 0 ELSE AllSubs[n - 1] + Subs(unit_list[n])
         IN  NumUrlsInUnits(unit_list) - AllSubs[Len(unit_list)] +
             NumUrlsIgnoringSubtitles(Tail(units_dict))

RECURSIVE num_urls_in_units_dict(_)
num_urls_in_units_dict(units_dict) ==
    IF units_dict = <<>> THEN 0
    ELSE NumUrlsInUnits(Head(units_dict).units) +
         num_urls_in_units_dict(Tail(units_dict))

(***************************************************************************)
(* remove_repeated_urls                                                    *)
(***************************************************************************)
\* FilterUrls with line 549 / 554 (existing_urls.add) left out
RECURSIVE FilterUrlsNoAdd(_, _, _)
FilterUrlsNoAdd(url_list, kept, existing_urls) ==
    IF url_list = <<>> THEN [kept |-> kept, existing_urls |-> existing_urls]
    ELSE IF Head(url_list) \notin existing_urls
         THEN FilterUrlsNoAdd(Tail(url_list), Append(kept, Head(url_list)), existing_urls)
         ELSE FilterUrlsNoAdd(Tail(url_list), kept, existing_urls)

\* FilterUrls with insert(0, url) in place of append(url)
RECURSIVE FilterUrlsPrepend(_, _, _)
FilterUrlsPrepend(url_list, kept, existing_urls) ==
    IF url_list = <<>> THEN [kept |-> kept, existing_urls |-> existing_urls]
    ELSE IF Head(url_list) \notin existing_urls
         THEN FilterUrlsPrepend(Tail(url_list), <<Head(url_list)>> \o kept,
                                existing_urls \cup {Head(url_list)})
         ELSE FilterUrlsPrepend(Tail(url_list), kept, existing_urls)

\* the inner loops over unit.mp4_urls and unit.resources_urls:
\* append the url and add it to existing_urls unless it is already there
RECURSIVE FilterUrls(_, _, _)
FilterUrls(url_list, kept, existing_urls) ==
    IF url_list = <<>> THEN [kept |-> kept, existing_urls |-> existing_urls]
    ELSE IF Head(url_list) \notin existing_urls
         THEN FilterUrls(Tail(url_list), Append(kept, Head(url_list)),
                         existing_urls \cup {Head(url_list)})
         ELSE FilterUrls(Tail(url_list), kept, existing_urls)

\* a reduction that clears the subtitle fields
ReduceUnitWithoutSubs(unit, existing_urls) ==
    LET fresh == unit.video_youtube_url \notin existing_urls
        video_youtube_url == IF fresh THEN unit.video_youtube_url ELSE None
        e1 == IF fresh THEN existing_urls \cup {unit.video_youtube_url}
              ELSE existing_urls
        mp4 == FilterUrls(unit.mp4_urls, <<>>, e1)
        res == FilterUrls(unit.resources_urls, <<>>, mp4.existing_urls)
    IN  [unit |-> Unit(video_youtube_url, None, None, mp4.kept, res.kept),
         existing_urls |-> res.existing_urls]

\* the body of "for unit in units" up to the test of line 556
ReduceUnit(unit, existing_urls) ==
    LET fresh == unit.video_youtube_url \notin existing_urls
        video_youtube_url == IF fresh THEN unit.video_youtube_url ELSE None
        e1 == IF fresh THEN existing_urls \cup {unit.video_youtube_url}
              ELSE existing_urls
        mp4 == FilterUrls(unit.mp4_urls, <<>>, e1)
        res == FilterUrls(unit.resources_urls, <<>>, mp4.existing_urls)
    IN  [unit |-> Unit(video_youtube_url, unit.available_subs_url,
                       unit.sub_template_url, mp4.kept, res.kept),
         existing_urls |-> res.existing_urls]

\* the test of line 556: the reduced unit is appended only if it holds a url
KeepsUnit(unit) ==
    \/ unit.video_youtube_url # None
    \/ Len(unit.mp4_urls) > 0
    \/ Len(unit.resources_urls) > 0

RECURSIVE ReduceUnits(_, _, _)
ReduceUnits(unit_list, reduced_units, existing_urls) ==
    IF unit_list = <<>>
    THEN [reduced_units |-> reduced_units, existing_urls |-> existing_urls]
    ELSE LET r == ReduceUnit(Head(unit_list), existing_urls)
         IN  ReduceUnits(Tail(unit_list),
                         IF KeepsUnit(r.unit) THEN Append(reduced_units, r.unit)
                         ELSE reduced_units,
                         r.existing_urls)

RECURSIVE RemoveRepeated(_, _, _)
RemoveRepeated(items, filtered, existing_urls) ==
    IF items = <<>> THEN filtered
    ELSE LET r == ReduceUnits(Head(items).units, <<>>, existing_urls)
         IN  RemoveRepeated(Tail(items),
                            Append(filtered, Entry(Head(items).url, r.reduced_units)),
                            r.existing_urls)

remove_repeated_urls(units_dict) == RemoveRepeated(units_dict, <<>>, {})

(***************************************************************************)
(* Generated All-Units Maps: every map of at most MaxSubsections pages,    *)
(* at most MaxUnits records and at most MaxUrls urls in all.               *)
(***************************************************************************)
SeqsUpTo(S, n) == UNION {[1..k -> S] : k \in 0..n}

\* the units that hold at most n urls
UnitsUpTo(n) ==
    UNION {
      LET used == (IF v # None THEN 1 ELSE 0) + (IF s # None THEN 1 ELSE 0) +
                  (IF t # None THEN 1 ELSE 0)
      IN  IF used > n THEN {}
          ELSE UNION {{Unit(v, s, t, m, r) :
                         r \in SeqsUpTo(ResourceUrls, n - used - Len(m))} :
                      m \in SeqsUpTo(ResourceUrls, n - used)}
      : v \in {None} \cup ResourceUrls, s \in {None, "subs"}, t \in {None, "tmpl%s"}}

Lookup(table, n) == (CHOOSE p \in table : p[1] = n)[2]

UnitsTable == {<<n, UnitsUpTo(n)>> : n \in 0..MaxUrls}

AppendUnit(d, u) ==
    [d EXCEPT ![Len(d)] = Entry(d[Len(d)].url, Append(d[Len(d)].units, u))]

\* all_units is d, or d extended by at most `pages` further pages and
\* `records` further records holding at most `budget` further urls
RECURSIVE IsGeneratedFrom(_, _, _, _)
IsGeneratedFrom(d, pages, records, budget) ==
    \/ all_units = d
    \/ /\ pages > 0
       /\ IsGeneratedFrom(Append(d, Entry(SubsectionUrls[Len(d) + 1], <<>>)),
                          pages - 1, records, budget)
    \/ /\ records > 0
       /\ d # <<>>
       /\ \E u \in Lookup(UnitsTable, budget) :
            IsGeneratedFrom(AppendUnit(d, u), pages, records - 1,
                            budget - NumUrlsInUnit(u))

(***************************************************************************)
(* SpecDedup: remove_repeated_urls applied to every generated map          *)
(***************************************************************************)
\* a variable that holds a dict, a list or a path and is not assigned yet
Unset == <<>>

\* the parts of the state that an operation studied on its own never uses
NoPool ==
    /\ urls = <<>>
    /\ task = <<>>
    /\ units = <<>>
    /\ finished = <<>>
    /\ fetched = <<>>
    /\ extracted = Unset

NoCount == pool = [queued |-> 0, busy |-> 0, done |-> 0]

NoMain ==
    /\ args = [cache |-> FALSE, dry_run |-> FALSE, prefer_cdn_videos |-> FALSE]
    /\ selections = <<>>
    /\ cache_file = [state |-> "absent", content |-> <<>>]
    /\ cached_units = Unset
    /\ all_urls = <<>>
    /\ run = "first"
    /\ first_outcome = "none"
    /\ cache_at_start = cache_file

NoWalk ==
    /\ download_units = Unset
    /\ sections_left = <<>>
    /\ section_units = <<>>
    /\ entered = 0
    /\ target_dir = Unset
    /\ counter = 0
    /\ dispatched = <<>>
    /\ downloads = <<>>

NoSubs ==
    /\ sub_unit = Unset
    /\ sub_files = {}
    /\ sub_files_at_start = {}
    /\ sub_call = 0
    /\ sub_filename = Unset
    /\ subs_left = <<>>
    /\ sub_log = <<>>

InitDedup ==
    /\ NoSubs
    /\ pc = "dedup"
    /\ IsGeneratedFrom(<<>>, MaxSubsections, MaxUnits, MaxUrls)
    /\ filtered_units = Unset
    /\ num_all_urls = Unset /\ num_filtered_urls = Unset
    /\ NoPool /\ NoCount /\ NoMain /\ NoWalk

\* main, lines 664-668
Deduplicate ==
    /\ pc = "dedup"
    /\ filtered_units' = remove_repeated_urls(all_units)
    /\ num_all_urls' = num_urls_in_units_dict(all_units)
    /\ num_filtered_urls' = num_urls_in_units_dict(filtered_units')
    /\ pc' = "deduped"
    /\ UNCHANGED <<all_units, poolVars, pool, mainVars, walkVars, subVars>>

NextDedup == Deduplicate

SpecDedup == InitDedup /\ [][NextDedup]_vars

(***************************************************************************)
(* The pages of the site: what extract_units (get_page_contents, then      *)
(* extract_units_from_html) returns for each subsection url.  The pages    *)
(* repeat urls inside a record, inside a page and across pages.            *)
(***************************************************************************)
Page(url) ==
    CASE url = "/s1" -> <<Unit("v1", "subs", "tmpl%s", <<"u1">>, <<>>),
                          Unit(None, None, None, <<>>, <<"u2">>)>>
      [] url = "/s2" -> <<Unit("v1", None, None, <<"u1">>, <<"u2">>)>>
      [] url = "/s3" -> <<Unit(None, None, None, <<"u3", "u1", "u3">>, <<>>)>>
      [] OTHER -> <<>>

(***************************************************************************)
(* extract_all_units: ThreadPool(20).map(extract_units, urls), then        *)
(* dict(zip(urls, units)).  A task is "queued", "running" or "done".       *)
(***************************************************************************)
PoolSize == 20

\* a worker thread of the pool is idle
WorkerAlwaysAvailable(busy) == TRUE

WorkerAvailable(busy) == busy < PoolSize

Running == {i \in 1..Len(task) : task[i] = "running"}

\* d[key] = value
DictSet(d, key, value) ==
    IF key \in DictKeys(d)
    THEN [i \in 1..Len(d) |-> IF d[i].url = key THEN Entry(key, value) ELSE d[i]]
    ELSE Append(d, Entry(key, value))

\* dict(zip(keys, values)), from the pairs at indices n..Len(keys) on
RECURSIVE DictZip(_, _, _, _)
DictZip(d, keys, values, n) ==
    IF n > Len(keys) THEN d
    ELSE DictZip(DictSet(d, keys[n], values[n]), keys, values, n + 1)

\* the call pool.map(mapfunc, us): one queued task for each index of us
PoolMap(us) ==
    /\ urls' = us
    /\ task' = [i \in 1..Len(us) |-> "queued"]
    /\ units' = [i \in 1..Len(us) |-> Unset]
    /\ finished' = <<>>
    /\ extracted' = Unset

\* pool.map puts the result of task i at index i of its result list
ResultSlotByCompletion(i) == Len(finished) + 1

ResultSlot(i) == i

\* an idle worker takes the next task of the queue and calls extract_units
StartTask ==
    /\ pc = "pool_map"
    /\ WorkerAvailable(Cardinality(Running))
    /\ \E i \in 1..Len(task) :
         /\ task[i] = "queued"
         /\ \A j \in 1..(i - 1) : task[j] # "queued"
         /\ task' = [task EXCEPT ![i] = "running"]
         /\ fetched' = Append(fetched, urls[i])
    /\ UNCHANGED <<pc, dedupVars, urls, units, finished, extracted, pool, mainVars, walkVars, subVars>>

\* extract_units returns the units of its page
FinishTask ==
    /\ pc = "pool_map"
    /\ \E i \in Running :
         /\ task' = [task EXCEPT ![i] = "done"]
         /\ units' = [units EXCEPT ![ResultSlot(i)] = Page(urls[i])]
         /\ finished' = Append(finished, i)
    /\ UNCHANGED <<pc, dedupVars, urls, fetched, extracted, pool, mainVars, walkVars, subVars>>

\* FailTask with the exception caught in the worker: an empty result, and the
\* batch goes on
FailTaskSwallowed ==
    /\ pc = "pool_map"
    /\ \E i \in Running :
         /\ task' = [task EXCEPT ![i] = "failed"]
         /\ units' = [units EXCEPT ![i] = <<>>]
    /\ UNCHANGED <<pc, dedupVars, urls, finished, fetched, extracted, pool,
                   mainVars, walkVars, subVars>>

\* get_page_contents or extract_units_from_html raises: pool.map raises it
\* again in the caller, which nothing up to main catches
FailTask ==
    /\ pc = "pool_map"
    /\ \E i \in Running : task' = [task EXCEPT ![i] = "failed"]
    /\ pc' = "fetch_error"
    /\ UNCHANGED <<dedupVars, urls, units, finished, fetched, extracted, pool,
                   mainVars, walkVars, subVars>>

\* KeyboardInterrupt while main waits in pool.map: caught at line 678
Interrupt ==
    /\ pc = "pool_map"
    /\ pc' = "interrupted"
    /\ UNCHANGED <<dedupVars, poolVars, pool, mainVars, walkVars, subVars>>

\* lines 310-314: every task is done
PoolMapReturn ==
    /\ pc = "pool_map"
    /\ \A i \in 1..Len(task) : task[i] = "done"
    /\ extracted' = DictZip(<<>>, urls, units, 1)
    /\ pc' = "extracted"
    /\ UNCHANGED <<dedupVars, urls, task, units, finished, fetched, pool, mainVars, walkVars, subVars>>

(***************************************************************************)
(* SpecExtract: extract_all_units on every list of at most MaxBatch urls   *)
(***************************************************************************)
InitExtract ==
    /\ NoSubs
    /\ pc = "pool_map"
    /\ urls \in SeqsUpTo(Range(SubsectionUrls), MaxBatch)
    /\ task = [i \in 1..Len(urls) |-> "queued"]
    /\ units = [i \in 1..Len(urls) |-> Unset]
    /\ finished = <<>>
    /\ fetched = <<>>
    /\ extracted = Unset
    /\ all_units = Unset
    /\ filtered_units = Unset
    /\ num_all_urls = Unset /\ num_filtered_urls = Unset
    /\ NoCount /\ NoMain /\ NoWalk

NextExtract ==
    \/ StartTask
    \/ FinishTask
    \/ FailTask
    \/ Interrupt
    \/ PoolMapReturn

SpecExtract == InitExtract /\ [][NextExtract]_vars

(***************************************************************************)
(* C6: whatever the order in which the workers complete, extract_all_units *)
(* returns a dict whose keys are exactly the input urls, each mapped to    *)
(* the units of its own page.                                              *)
(***************************************************************************)
C6_ExtractorCorrespondence ==
    pc = "extracted" =>
        /\ DictKeys(extracted) = Range(urls)
        /\ \A i \in 1..Len(extracted) : extracted[i].units = Page(extracted[i].url)

\* three distinct urls whose tasks completed in the reverse of the input order
C6_Witness ==
    /\ pc = "extracted"
    /\ Len(urls) = 3
    /\ Cardinality(Range(urls)) = 3
    /\ finished = <<3, 2, 1>>

(***************************************************************************)
(* SpecPool: the same pool with the tasks counted instead of named.  The   *)
(* twenty workers are interchangeable, and so are the tasks once only the  *)
(* number in progress is asked for.                                        *)
(***************************************************************************)
InitPool ==
    /\ NoSubs
    /\ pc = "pool_map"
    /\ \E n \in 0..(PoolSize + MaxExcess) :
         pool = [queued |-> n, busy |-> 0, done |-> 0]
    /\ all_units = Unset
    /\ filtered_units = Unset
    /\ num_all_urls = Unset /\ num_filtered_urls = Unset
    /\ NoPool /\ NoMain /\ NoWalk

\* an idle worker takes the next task of the queue
PoolStart ==
    /\ pool.queued > 0
    /\ WorkerAvailable(pool.busy)
    /\ pool' = [pool EXCEPT !.queued = @ - 1, !.busy = @ + 1]
    /\ UNCHANGED <<pc, dedupVars, poolVars, mainVars, walkVars, subVars>>

\* a worker ends its task, with a result or with an exception
PoolFinish ==
    /\ pool.busy > 0
    /\ pool' = [pool EXCEPT !.busy = @ - 1, !.done = @ + 1]
    /\ UNCHANGED <<pc, dedupVars, poolVars, mainVars, walkVars, subVars>>

NextPool ==
    \/ PoolStart
    \/ PoolFinish

SpecPool == InitPool /\ [][NextPool]_vars

(***************************************************************************)
(* C7: at every moment at most PoolSize = 20 fetch/parse operations are in *)
(* progress, however many urls the input holds; the others stay queued     *)
(* until a worker is free.                                                 *)
(***************************************************************************)
C7_BoundedParallelism ==
    /\ pool.busy <= PoolSize
    /\ (pool.busy = PoolSize /\ pool.queued > 0) => ~ENABLED PoolStart

\* all twenty workers are busy and urls are still queued
C7_Witness ==
    /\ pool.busy = PoolSize
    /\ pool.queued > 0

(***************************************************************************)
(* The selections: a dict from Course to the list of its chosen Sections,  *)
(* kept as a sequence of [course, sections] in iteration order.            *)
(***************************************************************************)
Course(name, id) == [name |-> name, id |-> id]

SubSection(url) == [name |-> url, url |-> url]

Section(position, name, subsections) ==
    [position |-> position, name |-> name, subsections |-> subsections]

Selection(course, sections) == [course |-> course, sections |-> sections]

RECURSIVE Flatten(_)
Flatten(seqs) == IF seqs = <<>> THEN <<>> ELSE Head(seqs) \o Flatten(Tail(seqs))

\* main, lines 644-647
AllUrls(sel) ==
    Flatten([c \in 1..Len(sel) |->
        Flatten([s \in 1..Len(sel[c].sections) |->
            [b \in 1..Len(sel[c].sections[s].subsections) |->
                sel[c].sections[s].subsections[b].url]])])

\* parse_units is called with the selections: its flat_units are the sections
NumFlatUnits(sel) == Len(Flatten([c \in 1..Len(sel) |-> sel[c].sections]))

(***************************************************************************)
(* The cache file: absent, unreadable, or the pickle of a dict.            *)
(***************************************************************************)
CacheFile(state, content) == [state |-> state, content |-> content]

Absent == CacheFile("absent", <<>>)
Corrupt == CacheFile("corrupt", <<>>)

\* what an earlier run found on a page that has changed since
CachedPage(url) == <<Unit("v0", None, None, <<"u1">>, <<>>)>>

\* a cache that holds the urls of SubsectionUrls in keys, after "/s0" if old
CachedDict(keys, old) ==
    (IF old THEN <<Entry("/s0", CachedPage("/s0"))>> ELSE <<>>) \o
    LET InKeys(url) == url \in keys
        kept == SelectSeq(SubsectionUrls, InKeys)
    IN  [i \in 1..Len(kept) |-> Entry(kept[i], CachedPage(kept[i]))]

CacheFiles ==
    {Absent, Corrupt} \cup
    {CacheFile("valid", CachedDict(keys, old)) :
        keys \in SUBSET Range(SubsectionUrls), old \in BOOLEAN}

\* dict.update: all_units.update(new_units), entry n of new_units on
RECURSIVE DictUpdate(_, _, _)
DictUpdate(d, new_units, n) ==
    IF n > Len(new_units) THEN d
    ELSE DictUpdate(DictSet(d, new_units[n].url, new_units[n].units), new_units, n + 1)

\* line 589, with the filter on the cache left out
NewUrlsAll(url_list, cached) == url_list

\* line 589
NewUrls(url_list, cached) ==
    LET NotCached(url) == url \notin DictKeys(cached)
    IN  SelectSeq(url_list, NotCached)

(***************************************************************************)
(* main, from line 644 on                                                  *)
(***************************************************************************)
MainSelections ==
    {<<Selection(Course("CourseA", 1), <<>>)>>,
     <<Selection(Course("CourseA", 1),
                 <<Section(1, "Week 1", <<SubSection("/s1"), SubSection("/s2")>>),
                   Section(2, "Week 2", <<SubSection("/s3")>>)>>)>>,
     <<Selection(Course("CourseA", 1),
                 <<Section(1, "Week 1", <<SubSection("/s1")>>)>>),
       Selection(Course("CourseA", 2),
                 <<Section(1, "Week 1", <<SubSection("/s2"), SubSection("/s1")>>)>>)>>}

Init ==
    /\ NoSubs
    /\ pc = "main"
    /\ args \in [cache : BOOLEAN, dry_run : BOOLEAN, prefer_cdn_videos : BOOLEAN]
    /\ selections \in MainSelections
    /\ cache_file \in CacheFiles
    /\ cache_at_start = cache_file
    /\ cached_units = Unset
    /\ all_urls = <<>>
    /\ run = "first"
    /\ first_outcome = "none"
    /\ all_units = Unset
    /\ filtered_units = Unset
    /\ num_all_urls = Unset /\ num_filtered_urls = Unset
    /\ NoPool /\ NoCount /\ NoWalk

\* lines 644-653
MainStart ==
    /\ pc = "main"
    /\ all_urls' = AllUrls(selections)
    /\ IF args.cache
       THEN /\ pc' = "extract_with_cache"
            /\ UNCHANGED <<urls, task, units, finished, extracted, subVars>>
       ELSE /\ PoolMap(AllUrls(selections))
            /\ pc' = "pool_map"
    /\ UNCHANGED <<dedupVars, fetched, pool, args, selections, cache_file,
                   cached_units, run, first_outcome, cache_at_start, walkVars, subVars>>

\* extract_all_units_with_cache, lines 583-592
ExtractWithCache ==
    /\ pc = "extract_with_cache"
    /\ IF cache_file.state = "corrupt"
       THEN /\ pc' = "cache_error"
            /\ UNCHANGED <<cached_units, urls, task, units, finished, extracted, subVars>>
       ELSE /\ cached_units' = cache_file.content
            /\ PoolMap(NewUrls(all_urls, cache_file.content))
            /\ pc' = "pool_map"
    /\ UNCHANGED <<dedupVars, fetched, pool, args, selections, cache_file,
                   all_urls, run, first_outcome, cache_at_start, walkVars, subVars>>

\* lines 593-595 with the cache, line 653 without
ReturnUnits ==
    /\ pc = "extracted"
    /\ all_units' = IF args.cache THEN DictUpdate(cached_units, extracted, 1)
                    ELSE extracted
    /\ pc' = "parse_units"
    /\ UNCHANGED <<filtered_units, num_all_urls, num_filtered_urls, poolVars, pool,
                   mainVars, walkVars, subVars>>

\* line 655 and parse_units: exit(6) when there is nothing in the selections
ParseUnits ==
    /\ pc = "parse_units"
    /\ pc' = IF NumFlatUnits(selections) < 1 THEN "exit"
             ELSE IF args.cache THEN "write_cache" ELSE "dedup"
    /\ UNCHANGED <<dedupVars, poolVars, pool, mainVars, walkVars, subVars>>

\* WriteCache with the file left as it was
WriteCacheSkipped ==
    /\ pc = "write_cache"
    /\ pc' = "dedup"
    /\ UNCHANGED <<dedupVars, poolVars, pool, mainVars, walkVars, subVars>>

\* lines 657-658 and write_units_to_cache
WriteCache ==
    /\ pc = "write_cache"
    /\ cache_file' = CacheFile("valid", all_units)
    /\ pc' = "dedup"
    /\ UNCHANGED <<dedupVars, poolVars, pool, args, selections, cached_units,
                   all_urls, run, first_outcome, cache_at_start, walkVars, subVars>>

(***************************************************************************)
(* download: the walk over courses, sections, subsections and units        *)
(***************************************************************************)
\* the decimal digits of n, most significant first
RECURSIVE Digits(_)
Digits(n) == IF n < 10 THEN <<n>> ELSE Append(Digits(n \div 10), n % 10)

\* "%02d" % n
Fmt02(n) == IF n < 10 THEN <<0, n>> ELSE Digits(n)

\* utils.directory_name and utils.clean_filename: the sanitized name
directory_name(name) == name

clean_filename(name) == name

\* lines 512-517
TargetDir(course, section) ==
    <<"Downloaded", directory_name(course.name),
      clean_filename(<<Fmt02(section.position), section.name>>)>>

\* the (course, section) pairs in the order of the loops of lines 511 and 513
SelectedSections(sel) ==
    Flatten([c \in 1..Len(sel) |->
        [s \in 1..Len(sel[c].sections) |->
            [course |-> sel[c].course, section |-> sel[c].sections[s]]]])

\* the units in the order of the loops of lines 520-522
SectionUnits(section, units_dict) ==
    Flatten([b \in 1..Len(section.subsections) |->
        DictGet(units_dict, section.subsections[b].url, <<>>)])

\* the counter when a section is entered, carried over from the section before
SectionCounterCarried == counter

\* line 519
SectionCounterStart == 0

\* the call download(args, selections, units_dict, headers), lines 507-511
Download(units_dict) ==
    /\ download_units' = units_dict
    /\ sections_left' = SelectedSections(selections)
    /\ section_units' = <<>>
    /\ entered' = 0
    /\ target_dir' = Unset
    /\ counter' = 0
    /\ dispatched' = <<>>
    /\ downloads' = <<>>

\* lines 671-672: download is given all_units
DownloadBegin ==
    /\ pc = "deduped"
    /\ IF args.dry_run
       THEN pc' = "done" /\ UNCHANGED walkVars
       ELSE pc' = "download" /\ Download(all_units)
    /\ UNCHANGED <<dedupVars, poolVars, pool, mainVars, subVars>>

\* lines 513-520: the next section, its directory and its counter
EnterSection ==
    /\ pc = "download"
    /\ section_units = <<>>
    /\ sections_left # <<>>
    /\ LET next == Head(sections_left)
       IN  /\ target_dir' = TargetDir(next.course, next.section)
           /\ section_units' = SectionUnits(next.section, download_units)
    /\ counter' = SectionCounterStart
    /\ entered' = entered + 1
    /\ sections_left' = Tail(sections_left)
    /\ UNCHANGED <<pc, dedupVars, poolVars, pool, mainVars, download_units,
                   dispatched, downloads, subVars>>

\* lines 522-526 and download_unit: the next unit of the section.  With
\* prefer_cdn_videos every url goes to urlretrieve, which raises when the
\* download fails; nothing catches it.  Otherwise youtube-dl is run for the
\* video, and how it ends is not seen here.
DownloadUnit ==
    /\ pc = "download"
    /\ section_units # <<>>
    /\ LET unit == Head(section_units)
           wanted == unit.mp4_urls \o unit.resources_urls
       IN  /\ dispatched' = Append(dispatched,
                 [section |-> entered, target_dir |-> target_dir,
                  filename_prefix |-> Fmt02(counter + 1), unit |-> unit])
           /\ IF args.prefer_cdn_videos
              THEN \/ /\ downloads' = downloads \o wanted
                      /\ pc' = pc
                   \/ \E n \in 1..Len(wanted) :
                        /\ downloads' = downloads \o SubSeq(wanted, 1, n)
                        /\ pc' = "download_error"
              ELSE /\ downloads' = IF unit.video_youtube_url # None
                                   THEN Append(downloads, unit.video_youtube_url)
                                   ELSE downloads
                   /\ pc' = pc
    /\ counter' = counter + 1
    /\ section_units' = Tail(section_units)
    /\ UNCHANGED <<dedupVars, poolVars, pool, mainVars, download_units,
                   sections_left, entered, target_dir, subVars>>

\* the loops of download are over
DownloadReturn ==
    /\ pc = "download"
    /\ section_units = <<>>
    /\ sections_left = <<>>
    /\ pc' = "done"
    /\ UNCHANGED <<dedupVars, poolVars, pool, mainVars, walkVars, subVars>>

(***************************************************************************)
(* Spec: main run once, then once more on the same command line            *)
(***************************************************************************)
Ended == {"done", "exit", "fetch_error", "interrupted", "cache_error",
          "download_error"}

\* the process has ended and edx-dl is started again with the same arguments
RunAgain ==
    /\ run = "first"
    /\ pc \in Ended
    /\ run' = "second"
    /\ first_outcome' = pc
    /\ pc' = "main"
    /\ cache_at_start' = cache_file
    /\ cached_units' = Unset
    /\ all_urls' = <<>>
    /\ all_units' = Unset
    /\ filtered_units' = Unset
    /\ num_all_urls' = Unset /\ num_filtered_urls' = Unset
    /\ urls' = <<>> /\ task' = <<>> /\ units' = <<>> /\ finished' = <<>>
    /\ fetched' = <<>> /\ extracted' = Unset
    /\ download_units' = Unset /\ sections_left' = <<>> /\ section_units' = <<>>
    /\ entered' = 0 /\ target_dir' = Unset /\ counter' = 0
    /\ dispatched' = <<>> /\ downloads' = <<>>
    /\ UNCHANGED <<pool, args, selections, cache_file, subVars>>

Next ==
    \/ MainStart
    \/ ExtractWithCache
    \/ StartTask
    \/ FinishTask
    \/ FailTask
    \/ Interrupt
    \/ PoolMapReturn
    \/ ReturnUnits
    \/ ParseUnits
    \/ WriteCache
    \/ Deduplicate
    \/ DownloadBegin
    \/ EnterSection
    \/ DownloadUnit
    \/ DownloadReturn
    \/ RunAgain

Spec == Init /\ [][Next]_vars

(***************************************************************************)
(* SpecDownload: download on every generated selection, the first course   *)
(* named "CourseA", with the pages of all the subsections or of all but    *)
(* one as its all_units                                                    *)
(***************************************************************************)
CourseNames == {"CourseA", "CourseB"}

AppendSection(sel, section) ==
    [sel EXCEPT ![Len(sel)] = Selection(sel[Len(sel)].course,
                                        Append(sel[Len(sel)].sections, section))]

AppendSubSection(sel, url) ==
    LET sections == sel[Len(sel)].sections
        last == sections[Len(sections)]
    IN  [sel EXCEPT ![Len(sel)] = Selection(sel[Len(sel)].course,
            [sections EXCEPT ![Len(sections)] =
                Section(last.position, last.name,
                        Append(last.subsections, SubSection(url)))])]

\* selections is sel, or sel extended by at most `courses` further courses,
\* `sections` further sections and `subsections` further subsections
RECURSIVE IsSelectionFrom(_, _, _, _)
IsSelectionFrom(sel, courses, sections, subsections) ==
    \/ selections = sel
    \/ /\ courses > 0
       /\ \E name \in (IF sel = <<>> THEN {"CourseA"} ELSE CourseNames) :
            IsSelectionFrom(Append(sel, Selection(Course(name, Len(sel) + 1), <<>>)),
                            courses - 1, sections, subsections)
    \/ /\ sections > 0
       /\ sel # <<>>
       /\ IsSelectionFrom(
            AppendSection(sel, Section(Len(sel[Len(sel)].sections) + 1, "Week", <<>>)),
            courses, sections - 1, subsections)
    \/ /\ subsections > 0
       /\ sel # <<>>
       /\ sel[Len(sel)].sections # <<>>
       /\ \E url \in Range(SubsectionUrls) :
            IsSelectionFrom(AppendSubSection(sel, url), courses, sections,
                            subsections - 1)

\* the dict of the pages of the urls in keys
PagesDict(keys) ==
    LET InKeys(url) == url \in keys
        kept == SelectSeq(SubsectionUrls, InKeys)
    IN  [i \in 1..Len(kept) |-> Entry(kept[i], Page(kept[i]))]

\* the sets of keys of all_units: every subsection url, or all but one
PageSets ==
    {Range(SubsectionUrls)} \cup
    {Range(SubsectionUrls) \ {url} : url \in Range(SubsectionUrls)}

InitDownload ==
    /\ NoSubs
    /\ pc = "download"
    /\ IsSelectionFrom(<<>>, MaxCourses, MaxSections, MaxSubsections)
    /\ \E cdn \in BOOLEAN :
         args = [cache |-> FALSE, dry_run |-> FALSE, prefer_cdn_videos |-> cdn]
    /\ \E keys \in PageSets :
         /\ all_units = PagesDict(keys)
         /\ download_units = PagesDict(keys)
    /\ sections_left = SelectedSections(selections)
    /\ section_units = <<>>
    /\ entered = 0
    /\ target_dir = Unset
    /\ counter = 0
    /\ dispatched = <<>>
    /\ downloads = <<>>
    /\ filtered_units = Unset
    /\ num_all_urls = Unset /\ num_filtered_urls = Unset
    /\ cache_file = Absent
    /\ cache_at_start = Absent
    /\ cached_units = Unset
    /\ all_urls = <<>>
    /\ run = "first"
    /\ first_outcome = "none"
    /\ NoPool /\ NoCount

NextDownload ==
    \/ EnterSection
    \/ DownloadUnit
    \/ DownloadReturn

SpecDownload == InitDownload /\ [][NextDownload]_vars

(***************************************************************************)
(* SpecSubtitles: _download_subtitles called again and again with the same *)
(* unit, target_dir and filename_prefix.  A file of target_dir is the      *)
(* tuple of the parts of its name: the video <<basename, "mp4">>, a        *)
(* subtitle <<basename, sub_lang, "srt">>.                                 *)
(***************************************************************************)
\* the answers of available_subs_url
LangLists == {<<>>, <<"en">>, <<"fr">>, <<"en", "fr">>, <<"fr", "en">>}

VideoFile == <<"01-title-id", "mp4">>

\* utils.get_filename_from_prefix: the name, without its extension, of the
\* video downloaded with the prefix, None when there is none
get_filename_from_prefix(files) ==
    IF VideoFile \in files THEN VideoFile[1] ELSE None

\* filename + '.' + sub_lang + '.srt'
SubsFilename(filename, sub_lang) == <<filename, sub_lang, "srt">>

\* what edx_get_subtitle returns: the subtitles, an empty string, or None
\* after a URLError or a ValueError
SubtitleStrings == {"srt text", "", None}

Truthy(subs_string) == subs_string \notin {"", None}

SubtitleNeverExists(subs_filename, files) == FALSE

\* os.path.exists(subs_filename)
SubtitleExists(subs_filename, files) == subs_filename \in files

SubsEvent(op, sub_lang) == [call |-> sub_call, op |-> op, sub_lang |-> sub_lang]

\* _download_subtitles up to the loop, with get_subtitles_download_urls
SubsCall ==
    /\ pc \in {"subs_idle", "subs_returned", "subs_error"}
    /\ sub_call < MaxCalls
    /\ sub_call' = sub_call + 1
    /\ sub_filename' = get_filename_from_prefix(sub_files)
    /\ IF sub_filename' = None \/ sub_unit.sub_template_url = None
       THEN subs_left' = <<>> /\ pc' = "subs_returned"
       ELSE IF sub_unit.available_subs_url = None
       THEN subs_left' = <<>> /\ pc' = "subs_loop"
       ELSE \/ \E available_subs \in LangLists :
                 subs_left' = available_subs /\ pc' = "subs_loop"
            \/ subs_left' = <<"en">> /\ pc' = "subs_loop"       \* HTTPError
            \/ subs_left' = <<>> /\ pc' = "subs_error"          \* another error
    /\ UNCHANGED <<dedupVars, poolVars, pool, mainVars, walkVars, sub_unit,
                   sub_files, sub_files_at_start, sub_log>>

\* one turn of the loop of line 463
SubsLang ==
    /\ pc = "subs_loop"
    /\ subs_left # <<>>
    /\ LET sub_lang == Head(subs_left)
           subs_filename == SubsFilename(sub_filename, sub_lang)
       IN  IF ~SubtitleExists(subs_filename, sub_files)
           THEN \E subs_string \in SubtitleStrings :
                  IF Truthy(subs_string)
                  THEN /\ sub_files' = sub_files \cup {subs_filename}
                       /\ sub_log' = sub_log \o <<SubsEvent("fetch", sub_lang),
                                                  SubsEvent("write", sub_lang)>>
                  ELSE /\ sub_files' = sub_files
                       /\ sub_log' = Append(sub_log, SubsEvent("fetch", sub_lang))
           ELSE /\ sub_files' = sub_files
                /\ sub_log' = Append(sub_log, SubsEvent("skip", sub_lang))
    /\ subs_left' = Tail(subs_left)
    /\ UNCHANGED <<pc, dedupVars, poolVars, pool, mainVars, walkVars, sub_unit,
                   sub_files_at_start, sub_call, sub_filename>>

SubsReturn ==
    /\ pc = "subs_loop"
    /\ subs_left = <<>>
    /\ pc' = "subs_returned"
    /\ UNCHANGED <<dedupVars, poolVars, pool, mainVars, walkVars, subVars>>

InitSubtitles ==
    /\ pc = "subs_idle"
    /\ \E s \in {None, "subs"}, t \in {None, "tmpl%s"} :
         sub_unit = Unit("v1", s, t, <<>>, <<>>)
    /\ sub_files \in SUBSET {VideoFile, SubsFilename(VideoFile[1], "en"),
                             SubsFilename(VideoFile[1], "fr")}
    /\ sub_files_at_start = sub_files
    /\ sub_call = 0
    /\ sub_filename = Unset
    /\ subs_left = <<>>
    /\ sub_log = <<>>
    /\ all_units = Unset
    /\ filtered_units = Unset
    /\ num_all_urls = Unset /\ num_filtered_urls = Unset
    /\ NoPool /\ NoCount /\ NoMain /\ NoWalk

NextSubtitles ==
    \/ SubsCall
    \/ SubsLang
    \/ SubsReturn

SpecSubtitles == InitSubtitles /\ [][NextSubtitles]_vars

(***************************************************************************)
(* Resource urls of a map, in traversal order: dict order, then record     *)
(* order, then video_youtube_url, mp4_urls, resources_urls.                *)
(***************************************************************************)
UnitUrls(unit) ==
    (IF unit.video_youtube_url # None THEN <<unit.video_youtube_url>> ELSE <<>>)
    \o unit.mp4_urls \o unit.resources_urls

RECURSIVE UnitsUrls(_)
UnitsUrls(unit_list) ==
    IF unit_list = <<>> THEN <<>> ELSE UnitUrls(Head(unit_list)) \o UnitsUrls(Tail(unit_list))

RECURSIVE DictUrls(_)
DictUrls(d) ==
    IF d = <<>> THEN <<>> ELSE UnitsUrls(Head(d).units) \o DictUrls(Tail(d))

NoRepeats(seq) == \A i, j \in 1..Len(seq) : i < j => seq[i] # seq[j]

\* the subsequence of seq at the indices in idx
Pick(seq, idx) ==
    [n \in 1..Cardinality(idx) |->
        seq[CHOOSE k \in idx : Cardinality({l \in idx : l < k}) = n - 1]]

\* the entries of urls that occur neither in `earlier` nor earlier in urls
FirstOccurrences(url_list, earlier) ==
    Pick(url_list, {k \in 1..Len(url_list) :
                  /\ url_list[k] \notin Range(earlier)
                  /\ \A l \in 1..(k - 1) : url_list[l] # url_list[k]})

\* the urls that precede record j of entry i of d in traversal order
UrlsBefore(d, i, j) ==
    DictUrls(SubSeq(d, 1, i - 1)) \o UnitsUrls(SubSeq(d[i].units, 1, j - 1))

\* record j of entry i of d with every url that occurs earlier taken out
FirstWinsUnit(d, i, j) ==
    LET unit == d[i].units[j]
        before == UrlsBefore(d, i, j)
        video == IF unit.video_youtube_url \in Range(before)
                 THEN None ELSE unit.video_youtube_url
        v == IF video # None THEN <<video>> ELSE <<>>
        mp4 == FirstOccurrences(unit.mp4_urls, before \o v)
    IN  Unit(video, unit.available_subs_url, unit.sub_template_url, mp4,
             FirstOccurrences(unit.resources_urls, before \o v \o unit.mp4_urls))

HoldsUrl(unit) == UnitUrls(unit) # <<>>

\* entry i of d: each record keeps its first occurrences, in their order, and
\* the records left without a url are gone
FirstWinsEntry(d, i) ==
    LET reduced == [j \in 1..Len(d[i].units) |-> FirstWinsUnit(d, i, j)]
    IN  Entry(d[i].url, Pick(reduced, {j \in 1..Len(reduced) : HoldsUrl(reduced[j])}))

(***************************************************************************)
(* C1: after remove_repeated_urls no resource url occurs more than once    *)
(* across the video_youtube_url, mp4_urls and resources_urls of all the    *)
(* records of the filtered map, whatever the input map repeats.            *)
(***************************************************************************)
C1_DedupUniqueness ==
    pc = "deduped" => NoRepeats(DictUrls(filtered_units))

\* a deduplicated map one of whose records repeated a url inside mp4_urls
\* and had it again as the video_youtube_url of a later record
C1_Witness ==
    /\ pc = "deduped"
    /\ \E i \in 1..Len(all_units) : \E j \in 1..Len(all_units[i].units) :
         LET unit == all_units[i].units[j]
         IN  /\ Len(unit.mp4_urls) = 2
             /\ unit.mp4_urls[1] = unit.mp4_urls[2]
             /\ \E k \in (j + 1)..Len(all_units[i].units) :
                  all_units[i].units[k].video_youtube_url = unit.mp4_urls[1]

(***************************************************************************)
(* C2: first occurrence wins.  Every url stays in the record of its        *)
(* earliest occurrence in traversal order and is removed from every later  *)
(* one; the kept entries of each list keep their relative order.           *)
(***************************************************************************)
C2_FirstOccurrenceWins ==
    pc = "deduped" =>
        /\ Len(filtered_units) = Len(all_units)
        /\ \A i \in 1..Len(all_units) :
             filtered_units[i] = FirstWinsEntry(all_units, i)

\* two records of two subsections share an mp4 url: the earlier keeps it, the
\* later loses it and keeps its other entry
C2_Witness ==
    /\ pc = "deduped"
    /\ Len(all_units) = 2
    /\ Len(all_units[1].units) = 1 /\ Len(all_units[2].units) = 1
    /\ all_units[1].units[1].mp4_urls = <<"u1">>
    /\ all_units[2].units[1].mp4_urls = <<"u2", "u1">>
    /\ filtered_units[1].units[1].mp4_urls = <<"u1">>
    /\ filtered_units[2].units[1].mp4_urls = <<"u2">>

(***************************************************************************)
(* C3: in a run of main that is not a dry run, download is given the map   *)
(* filtered by remove_repeated_urls, so that a url found in several        *)
(* records is handed to a downloader once only.                            *)
(***************************************************************************)
C3_DownloadGivenFilteredMap ==
    pc \in {"download", "download_error"} =>
        /\ download_units = filtered_units
        /\ NoRepeats(downloads)

(***************************************************************************)
(* C4: extract_all_units_with_cache fetches exactly the requested urls     *)
(* that are not keys of the cached dict and never a key of it; when every  *)
(* requested url is a key it fetches nothing and returns the cached dict,  *)
(* every cached entry as it was.                                           *)
(***************************************************************************)
CachedAtStart == cache_at_start.content

ExtractReturned ==
    pc \in {"parse_units", "write_cache", "dedup", "deduped", "download",
            "download_error", "done", "exit"}

C4_FetchesOnlyUncached ==
    (args.cache /\ cache_at_start.state # "corrupt") =>
        /\ Range(fetched) \cap DictKeys(CachedAtStart) = {}
        /\ ExtractReturned =>
             /\ Range(fetched) = Range(all_urls) \ DictKeys(CachedAtStart)
             /\ \A i \in 1..Len(CachedAtStart) : all_units[i] = CachedAtStart[i]
             /\ Range(all_urls) \subseteq DictKeys(CachedAtStart) =>
                  (fetched = <<>> /\ all_units = CachedAtStart)

\* the call has returned after fetching some of the requested urls, while
\* others of them were keys of the cache
C4_Witness ==
    /\ args.cache
    /\ pc = "parse_units"
    /\ cache_at_start.state = "valid"
    /\ fetched # <<>>
    /\ Range(all_urls) \cap DictKeys(CachedAtStart) # {}

(***************************************************************************)
(* C5: with --cache, when a first run has completed, a second run on the   *)
(* same subsection urls fetches no subsection page.                        *)
(***************************************************************************)
C5_SecondRunFetchesNothing ==
    (run = "second" /\ args.cache /\ first_outcome = "done") => fetched = <<>>

\* the second run is over; its cache holds a page that the first run fetched
C5_Witness ==
    /\ run = "second"
    /\ args.cache
    /\ first_outcome = "done"
    /\ pc = "done"
    /\ all_urls # <<>>
    /\ \E i \in 1..Len(CachedAtStart) :
         CachedAtStart[i].units = Page(CachedAtStart[i].url)

(***************************************************************************)
(* C8: a fetch or parse failure of one url, or an interrupt, during the    *)
(* extraction ends the run: no All-Units Map is returned, and the cache    *)
(* file, written only once the merge is complete, holds what it held when  *)
(* the run began.                                                          *)
(***************************************************************************)
FetchFailed == \E i \in 1..Len(task) : task[i] = "failed"

C8_ExtractionFailureIsFatal ==
    /\ (FetchFailed \/ pc = "interrupted") =>
          /\ pc \in {"fetch_error", "interrupted"}
          /\ extracted = Unset
          /\ all_units = Unset
          /\ cache_file = cache_at_start
    /\ cache_file # cache_at_start =>
          pc \in {"dedup", "deduped", "download", "download_error", "done"}

\* a fetch failed after another url of the batch had been fetched, with a
\* cache on disk
C8_Witness ==
    /\ pc = "fetch_error"
    /\ args.cache
    /\ cache_file.state = "valid"
    /\ cache_file.content # <<>>
    /\ finished # <<>>

(***************************************************************************)
(* C9: a failed download of one resource never aborts the walk: every unit *)
(* after the failing one is still dispatched.                              *)
(***************************************************************************)
AllSelectedUnits(sel, units_dict) ==
    LET sections == SelectedSections(sel)
    IN  Flatten([s \in 1..Len(sections) |->
                    SectionUnits(sections[s].section, units_dict)])

C9_FailureNeverAbortsWalk ==
    pc \in {"done", "download_error"} =>
        Len(dispatched) = Len(AllSelectedUnits(selections, download_units))

(***************************************************************************)
(* C10: the counter starts at 0 in every section and grows by one for each *)
(* record, over the subsections of the section in order and the records of *)
(* each in order, a subsection missing from the map giving none: the k-th  *)
(* record of a section is dispatched with the prefix "%02d" % k, in the    *)
(* directory of the section, and the prefixes of one section are pairwise  *)
(* distinct.  The log of dispatches is a function of the inputs.           *)
(***************************************************************************)
\* the place of dispatch n among the dispatches of its section
RankInSection(n) ==
    Cardinality({m \in 1..n : dispatched[m].section = dispatched[n].section})

C10_PerSectionPrefixes ==
    pc \in {"download", "download_error", "done"} =>
        /\ \A n \in 1..Len(dispatched) :
             LET e == dispatched[n]
                 s == SelectedSections(selections)[e.section]
                 k == RankInSection(n)
             IN  /\ e.filename_prefix = Fmt02(k)
                 /\ e.unit = SectionUnits(s.section, download_units)[k]
                 /\ e.target_dir = TargetDir(s.course, s.section)
        /\ \A m, n \in 1..Len(dispatched) :
             (m < n /\ dispatched[m].section = dispatched[n].section) =>
                 dispatched[m].filename_prefix # dispatched[n].filename_prefix
        /\ \A m, n \in 1..Len(dispatched) :
             m < n => dispatched[m].section <= dispatched[n].section

\* the claim as first stated: the prefixes of one section directory are
\* pairwise distinct
C10_DistinctPrefixesInDirectory ==
    \A m, n \in 1..Len(dispatched) :
        (m < n /\ dispatched[m].target_dir = dispatched[n].target_dir) =>
            dispatched[m].filename_prefix # dispatched[n].filename_prefix

\* two records of a first section got 01 and 02, and the first record of the
\* next section got 01 again
C10_Witness ==
    /\ pc = "done"
    /\ Len(dispatched) = 3
    /\ dispatched[2].section = 1
    /\ dispatched[2].filename_prefix = <<0, 2>>
    /\ dispatched[3].section = 2
    /\ dispatched[3].filename_prefix = <<0, 1>>

(***************************************************************************)
(* C11: over repeated calls of _download_subtitles with the same unit,     *)
(* directory and prefix each subtitle path is written at most once: a      *)
(* language whose .srt file exists, written by an earlier call or there    *)
(* before the first, is neither fetched nor written again but skipped,     *)
(* and a language is skipped for no other reason.                          *)
(***************************************************************************)
WrittenBefore(n) ==
    \E m \in 1..(n - 1) :
        sub_log[m].op = "write" /\ sub_log[m].sub_lang = sub_log[n].sub_lang

ThereAtStart(n) ==
    \E filename \in {VideoFile[1]} :
        SubsFilename(filename, sub_log[n].sub_lang) \in sub_files_at_start

C11_SubtitleWrittenOnce ==
    /\ \A n \in 1..Len(sub_log) :
         (sub_log[n].op = "skip") <=> (WrittenBefore(n) \/ ThereAtStart(n))
    /\ \A sub_lang \in {"en", "fr"} :
         Cardinality({n \in 1..Len(sub_log) :
            sub_log[n].op = "write" /\ sub_log[n].sub_lang = sub_lang}) <= 1
    /\ sub_files = sub_files_at_start \cup
         {SubsFilename(VideoFile[1], sub_log[n].sub_lang) :
            n \in {k \in 1..Len(sub_log) : sub_log[k].op = "write"}}

\* the claim as first stated: a second call fetches and writes nothing
C11_SecondCallOnlySkips ==
    \A n \in 1..Len(sub_log) : sub_log[n].call >= 2 => sub_log[n].op = "skip"

\* the first call wrote "en" and got nothing for "fr"; the second call skipped
\* "en" and fetched "fr" again
C11_Witness ==
    /\ pc = "subs_returned"
    /\ sub_call = 2
    /\ \E a, b, c, d \in 1..Len(sub_log) :
         /\ sub_log[a] = [call |-> 1, op |-> "write", sub_lang |-> "en"]
         /\ sub_log[b] = [call |-> 2, op |-> "skip", sub_lang |-> "en"]
         /\ sub_log[c] = [call |-> 1, op |-> "fetch", sub_lang |-> "fr"]
         /\ sub_log[d] = [call |-> 2, op |-> "fetch", sub_lang |-> "fr"]
         /\ \A n \in 1..Len(sub_log) :
              sub_log[n].sub_lang = "fr" => sub_log[n].op = "fetch"

(***************************************************************************)
(* C12: count conservation.  num_all_urls - num_filtered_urls is the       *)
(* number of fields and entries that deduplication removed, found by       *)
(* comparing the filtered map with the input map: the url entries taken    *)
(* out, one for each repeat of a url in traversal order, and the subtitle  *)
(* fields of the records dropped.                                          *)
(***************************************************************************)
SubsFields(unit) ==
    (IF unit.available_subs_url # None THEN 1 ELSE 0) +
    (IF unit.sub_template_url # None THEN 1 ELSE 0)

\* the subtitle fields set in the records of d
SubsFieldsIn(d) ==
    LET flat == Flatten([i \in 1..Len(d) |-> d[i].units])
        Sum[n \in 0..Len(flat)] ==
            IF n = 0 THEN 0 ELSE Sum[n - 1] + SubsFields(flat[n])
    IN  Sum[Len(flat)]

\* every url of record j of entry i of d occurs earlier in traversal order
Dropped(d, i, j) ==
    Range(UnitUrls(d[i].units[j])) \subseteq Range(UrlsBefore(d, i, j))

\* the subtitle fields set in the dropped records of d
DroppedSubsFields(d) ==
    LET at == Flatten([i \in 1..Len(d) |->
                         [j \in 1..Len(d[i].units) |-> <<i, j>>]])
        Sum[n \in 0..Len(at)] ==
            IF n = 0 THEN 0
            ELSE Sum[n - 1] +
                 (IF Dropped(d, at[n][1], at[n][2])
                  THEN SubsFields(d[at[n][1]].units[at[n][2]]) ELSE 0)
    IN  Sum[Len(at)]

\* the occurrences of urls in d beyond the first of each url
Repeats(d) == Len(DictUrls(d)) - Cardinality(Range(DictUrls(d)))

SubsOf(unit_list) ==
    [j \in 1..Len(unit_list) |->
        <<unit_list[j].available_subs_url, unit_list[j].sub_template_url>>]

C13_SubtitleFieldsOfKeptRecords ==
    pc = "deduped" =>
        \A i \in 1..Len(all_units) :
            SubsOf(filtered_units[i].units) =
                Pick(SubsOf(all_units[i].units),
                     {j \in 1..Len(all_units[i].units) : ~Dropped(all_units, i, j)})

\* the claim as first stated: the subtitle fields set in any record of the
\* input map are in the filtered map
HasSubs(pair) == pair # <<None, None>>

C13_SubtitleFieldsOfEveryRecord ==
    pc = "deduped" =>
        \A i \in 1..Len(all_units) :
            SelectSeq(SubsOf(filtered_units[i].units), HasSubs) =
                SelectSeq(SubsOf(all_units[i].units), HasSubs)

\* a record lost some of its urls and kept its subtitle field
C13_Witness ==
    /\ pc = "deduped"
    /\ \E i \in 1..Len(all_units) :
         /\ Len(filtered_units[i].units) = Len(all_units[i].units)
         /\ \E j \in 1..Len(all_units[i].units) :
              /\ filtered_units[i].units[j] # all_units[i].units[j]
              /\ all_units[i].units[j].available_subs_url # None
              /\ filtered_units[i].units[j].available_subs_url =
                    all_units[i].units[j].available_subs_url

=============================================================================
